---------------------------- MODULE Spec2Model ----------------------------
(***************************************************************************)
(* Trade ingestion, deduplication and anomaly classification of the        *)
(* Polymarket whale detector (src/src/server/index.ts and                  *)
(* src/src/server/services/anomaly.ts), and the life cycle of its feed     *)
(* connector (PolymarketWebSocket) and of the process.                     *)
(*                                                                         *)
(* Numbers.  Every quantity of the detector is an ECMAScript Number, a     *)
(* binary floating-point value whose operations round to nearest, ties to  *)
(* even.  The model keeps that arithmetic and shortens the significand     *)
(* from 53 bits to PREC bits: a number is the record [nan, m, e] standing  *)
(* for m * 2^e with m odd (or m = 0, e = 0), |m| < 2^PREC, and NaN is the  *)
(* record with nan = TRUE.                                                 *)
(***************************************************************************)
EXTENDS Integers, Sequences, FiniteSets, TLC

\* Significand width of the model's numbers (53 in the program's doubles).
PREC == 14

---------------------------------------------------------------------------
\* Number representation

NaN == [nan |-> TRUE, m |-> 0, e |-> 0]

Zero == [nan |-> FALSE, m |-> 0, e |-> 0]

RECURSIVE BitLen(_)
BitLen(n) == IF n = 0 THEN 0 ELSE 1 + BitLen(n \div 2)

IAbs(n) == IF n < 0 THEN -n ELSE n

IMin(a, b) == IF a < b THEN a ELSE b

RECURSIVE Normalize(_, _)
\* the canonical record of m * 2^e: trailing zero bits of m move into e
Normalize(m, e) ==
  IF m = 0 THEN Zero
  ELSE IF m % 2 = 0 THEN Normalize(m \div 2, e + 1)
  ELSE [nan |-> FALSE, m |-> m, e |-> e]

\* M / 2^s for s > 0, rounded to the nearest integer, ties to even
RoundOff(M, s) ==
  LET q  == IAbs(M) \div (2^s)
      r  == IAbs(M) % (2^s)
      q2 == IF r > 2^(s - 1) \/ (r = 2^(s - 1) /\ q % 2 = 1) THEN q + 1 ELSE q
  IN IF M > 0 THEN q2 ELSE -q2

\* M * 2^e with the last s bits of M rounded off (none when s <= 0)
RoundTo(M, e, s) ==
  Normalize(IF s <= 0 THEN M ELSE RoundOff(M, s), IF s <= 0 THEN e ELSE e + s)

\* M * 2^e rounded to PREC significant bits, to nearest, ties to even
Round(M, e) == RoundTo(M, e, BitLen(IAbs(M)) - PREC)

\* position just above the leading bit: |x| is in [2^(Top-1), 2^Top)
Top(x) == x.e + BitLen(IAbs(x.m))

\* an integer literal
Num(i) == Round(i, 0)

Neg(x) == IF x.nan THEN NaN ELSE [nan |-> FALSE, m |-> -x.m, e |-> x.e]

\* m / 2^s truncated toward zero, the bits shifted out kept as a sticky
\* last bit
StickyShift(m, s) ==
  LET q  == IF s >= 31 THEN 0 ELSE IAbs(m) \div (2^s)
      st == IF s >= 31 THEN 1 ELSE (IF IAbs(m) % (2^s) # 0 THEN 1 ELSE 0)
      qs == IF q % 2 = 1 THEN q ELSE q + st
  IN IF m > 0 THEN qs ELSE -qs

\* x + y with both significands aligned at the exponent E
AddAt(x, y, E) ==
  Round(x.m * 2^(x.e - E)
          + (IF y.e >= E THEN y.m * 2^(y.e - E) ELSE StickyShift(y.m, E - y.e)),
        E)

\* x + y for finite non-zero x, y with Top(x) >= Top(y): both are aligned
\* three bits below x's last significand bit and the bits of y below that
\* are kept as a sticky bit
AddAligned(x, y) == AddAt(x, y, IMin(x.e, Top(x) - PREC - 3))

\* a + b
Add(x, y) ==
  IF x.nan \/ y.nan THEN NaN
  ELSE IF x.m = 0 THEN y
  ELSE IF y.m = 0 THEN x
  ELSE AddAligned(IF Top(x) >= Top(y) THEN x ELSE y,
                  IF Top(x) >= Top(y) THEN y ELSE x)

\* a - b
Sub(x, y) == Add(x, Neg(y))

\* a * b
Mul(x, y) ==
  IF x.nan \/ y.nan THEN NaN
  ELSE Round(x.m * y.m, x.e + y.e)

\* a / b for b # 0: the quotient to at least PREC + 1 bits and a sticky bit
Div(x, y) ==
  IF x.nan \/ y.nan \/ y.m = 0 THEN NaN
  ELSE IF x.m = 0 THEN Zero
  ELSE LET a  == IAbs(x.m)
           b  == IAbs(y.m)
           k0 == PREC + 1 + BitLen(b) - BitLen(a)
           k  == IF k0 < 0 THEN 0 ELSE k0
           n  == a * 2^k
           q  == 2 * (n \div b) + (IF n % b # 0 THEN 1 ELSE 0)
       IN Round(IF (x.m > 0) = (y.m > 0) THEN q ELSE -q, x.e - y.e - k - 1)

RECURSIVE SqrtRem(_, _)
\* <<floor(sqrt(m * 4^k)), remainder>>, one result bit per step
SqrtRem(m, k) ==
  IF m = 0 THEN <<0, 0>>
  ELSE LET prev == IF k > 0 THEN SqrtRem(m, k - 1) ELSE SqrtRem(m \div 4, 0)
           pair == IF k > 0 THEN 0 ELSE m % 4
           r    == prev[1]
           rem  == 4 * prev[2] + pair
       IN IF rem >= 4 * r + 1 THEN <<2 * r + 1, rem - (4 * r + 1)>>
          ELSE <<2 * r, rem>>

\* Math.sqrt
MathSqrt(x) ==
  IF x.nan \/ x.m < 0 THEN NaN
  ELSE IF x.m = 0 THEN Zero
  ELSE LET m  == IF x.e % 2 = 0 THEN x.m ELSE 2 * x.m
           e  == IF x.e % 2 = 0 THEN x.e ELSE x.e - 1
           d  == 2 * PREC + 3 - BitLen(m)
           k  == IF d <= 0 THEN 0 ELSE (d + 1) \div 2
           sr == SqrtRem(m, k)
           r2 == 2 * sr[1] + (IF sr[2] # 0 THEN 1 ELSE 0)
       IN Round(r2, (e \div 2) - k - 1)

\* Math.abs
MathAbs(x) == IF x.nan THEN NaN ELSE [nan |-> FALSE, m |-> IAbs(x.m), e |-> x.e]

\* x < y for finite x and y: by sign, then by magnitude class, then by the
\* significands brought to the same exponent
Less(x, y) ==
  IF x.m = 0 \/ y.m = 0 \/ (x.m > 0) # (y.m > 0) THEN x.m < y.m
  ELSE IF Top(x) # Top(y) THEN (x.m > 0) = (Top(x) < Top(y))
  ELSE IF x.e >= y.e THEN x.m * 2^(x.e - y.e) < y.m
  ELSE x.m < y.m * 2^(y.e - x.e)

\* a > b (false when either is NaN)
Gt(x, y) == ~x.nan /\ ~y.nan /\ Less(y, x)

\* a >= b (false when either is NaN)
Ge(x, y) == ~x.nan /\ ~y.nan /\ ~Less(x, y)

\* a < b (false when either is NaN)
Lt(x, y) == ~x.nan /\ ~y.nan /\ Less(x, y)

\* Math.min: NaN when either argument is NaN
MathMin(x, y) == IF x.nan \/ y.nan THEN NaN ELSE IF Less(y, x) THEN y ELSE x

\* Math.max: NaN when either argument is NaN
MathMax(x, y) == IF x.nan \/ y.nan THEN NaN ELSE IF Less(x, y) THEN y ELSE x

\* a decimal literal n/d (d a power of ten), correctly rounded
Dec(n, d) == Div(Num(n), Num(d))

---------------------------------------------------------------------------
\* AnomalyDetector (src/src/server/services/anomaly.ts)

\* Capacity of the global window (5000 in the program), scaled.
GLOBAL_WINDOW == 12

\* Capacity of each market's window (500 in the program), scaled.
MARKET_WINDOW == 11

\* calculateZScore returns 0 below this many observations.
MIN_SAMPLES == 10

\* PushShift with pop() in place of shift(): the newest entry is evicted
PushPop(arr, v, cap) ==
  IF Len(arr) + 1 > cap THEN arr ELSE Append(arr, v)

\* array.push(v) followed by shift() when the array is longer than cap
PushShift(arr, v, cap) ==
  IF Len(arr) + 1 > cap THEN Tail(Append(arr, v)) ELSE Append(arr, v)

RECURSIVE ReduceSum(_, _)
\* dataset.reduce((a, b) => a + b, 0) over the first n elements
ReduceSum(dataset, n) ==
  IF n = 0 THEN Zero ELSE Add(ReduceSum(dataset, n - 1), dataset[n])

\* Math.pow(d, 2)
MathPow2(d) == Mul(d, d)

RECURSIVE ReduceSqDev(_, _, _)
\* dataset.reduce((sum, val) => sum + Math.pow(val - mean, 2), 0)
ReduceSqDev(dataset, mean, n) ==
  IF n = 0 THEN Zero
  ELSE Add(ReduceSqDev(dataset, mean, n - 1), MathPow2(Sub(dataset[n], mean)))

\* const mean = dataset.reduce(...) / dataset.length
Mean(dataset) == Div(ReduceSum(dataset, Len(dataset)), Num(Len(dataset)))

\* const variance = dataset.reduce(...) / dataset.length
Variance(dataset, mean) ==
  Div(ReduceSqDev(dataset, mean, Len(dataset)), Num(Len(dataset)))

\* if (stdDev === 0) return 0; return (value - mean) / stdDev
ZScoreFrom(value, mean, stdDev) ==
  IF ~stdDev.nan /\ stdDev.m = 0 THEN Zero ELSE Div(Sub(value, mean), stdDev)

\* calculateZScore from the point where mean is known
ZScoreAbout(value, dataset, mean) ==
  ZScoreFrom(value, mean, MathSqrt(Variance(dataset, mean)))

\* calculateZScore with its first test reading dataset.length < 2
calculateZScoreFromTwo(value, dataset) ==
  IF Len(dataset) < 2 THEN Zero
  ELSE ZScoreAbout(value, dataset, Mean(dataset))

calculateZScore(value, dataset) ==
  IF Len(dataset) < MIN_SAMPLES THEN Zero
  ELSE ZScoreAbout(value, dataset, Mean(dataset))

HasNaN(dataset) == \E i \in 1..Len(dataset) : dataset[i].nan

RECURSIVE InsertSorted(_, _)
\* v placed after every element of the ascending sequence whose difference
\* from it, as the comparator (a, b) => a - b computes it, is not negative
InsertSorted(sorted, v) ==
  IF sorted = <<>> THEN <<v>>
  ELSE IF Sub(v, Head(sorted)).m < 0 THEN <<v>> \o sorted
  ELSE <<Head(sorted)>> \o InsertSorted(Tail(sorted), v)

RECURSIVE SortAscending(_)
\* [...dataset].sort((a, b) => a - b) of a dataset without NaN
SortAscending(dataset) ==
  IF dataset = <<>> THEN <<>>
  ELSE InsertSorted(SortAscending(SubSeq(dataset, 1, Len(dataset) - 1)),
                    dataset[Len(dataset)])

\* FindIndex with the test v > value
FindIndexAbove(sorted, value) ==
  IF \A i \in 1..Len(sorted) : ~Gt(sorted[i], value) THEN -1
  ELSE (CHOOSE i \in 1..Len(sorted) :
          /\ Gt(sorted[i], value)
          /\ \A j \in 1..(i - 1) : ~Gt(sorted[j], value)) - 1

\* sorted.findIndex((v) => v >= value), 0-based, -1 when there is none
FindIndex(sorted, value) ==
  IF \A i \in 1..Len(sorted) : ~Ge(sorted[i], value) THEN -1
  ELSE (CHOOSE i \in 1..Len(sorted) :
          /\ Ge(sorted[i], value)
          /\ \A j \in 1..(i - 1) : ~Ge(sorted[j], value)) - 1

\* const sorted = [...dataset].sort((a, b) => a - b): the sorted copies the
\* call can produce, each with the dataset as the call leaves it (the copy
\* is sorted, not the dataset).  With a NaN in the dataset the comparator
\* is not consistent and the order of the copy is implementation-defined:
\* findIndex may then return any index that leaves room for the other
\* elements >= value, so the copy is given by that index alone.
SortedCopyIndexes(value, dataset) ==
  IF ~HasNaN(dataset)
  THEN {[index |-> FindIndex(SortAscending(dataset), value), dataset |-> dataset]}
  ELSE LET h == Cardinality({i \in 1..Len(dataset) : Ge(dataset[i], value)})
       IN {[index |-> i, dataset |-> dataset] :
             i \in IF h = 0 THEN {-1} ELSE 0..(Len(dataset) - h)}

\* the value calculatePercentile returns when findIndex returned index
PercentileAt(index, length) ==
  IF index = -1 THEN Num(100)
  ELSE Mul(Div(Num(index), Num(length)), Num(100))

\* calculatePercentile(value, dataset): the outcomes [percentile, dataset]
\* of the call (one outcome unless the dataset holds a NaN)
calculatePercentile(value, dataset) ==
  IF Len(dataset) = 0 THEN {[percentile |-> Num(50), dataset |-> dataset]}
  ELSE {[percentile |-> PercentileAt(c.index, Len(c.dataset)), dataset |-> c.dataset] :
          c \in SortedCopyIndexes(value, dataset)}

\* the step bonus of calculateSuspicionScore for the absolute size
SizeContribution(usdcSize) ==
  IF Gt(usdcSize, Num(100000)) THEN Num(30)
  ELSE IF Gt(usdcSize, Num(50000)) THEN Num(25)
  ELSE IF Gt(usdcSize, Num(25000)) THEN Num(20)
  ELSE IF Gt(usdcSize, Num(10000)) THEN Num(15)
  ELSE IF Gt(usdcSize, Num(5000)) THEN Num(10)
  ELSE Zero

\* ZScoreContribution without its cap of 40
ZScoreContributionUncapped(zScore) == Mul(MathAbs(zScore), Num(12))

\* score += Math.min(40, Math.abs(zScore) * 12)
ZScoreContribution(zScore) == MathMin(Num(40), Mul(MathAbs(zScore), Num(12)))

\* PercentileContribution counting from percentile 0 instead of 50
PercentileContributionFromZero(percentile) ==
  MathMin(Num(30), Mul(percentile, Dec(6, 10)))

\* score += Math.min(30, (percentile - 50) * 0.6)
PercentileContribution(percentile) ==
  MathMin(Num(30), Mul(Sub(percentile, Num(50)), Dec(6, 10)))

calculateSuspicionScore(zScore, percentile, usdcSize) ==
  MathMin(Num(100),
          MathMax(Zero,
                  Add(Add(Add(Zero, ZScoreContribution(zScore)),
                          PercentileContribution(percentile)),
                      SizeContribution(usdcSize))))

\* getSeverity reading the magnitude of the z-score
getSeverityByMagnitude(zScore, usdcSize) ==
  IF Gt(MathAbs(zScore), Num(4)) \/ Gt(usdcSize, Num(100000)) THEN "EXTREME"
  ELSE IF Gt(MathAbs(zScore), Num(3)) \/ Gt(usdcSize, Num(50000)) THEN "HIGH"
  ELSE IF Gt(MathAbs(zScore), Dec(25, 10)) \/ Gt(usdcSize, Num(25000)) THEN "MEDIUM"
  ELSE "LOW"

getSeverity(zScore, usdcSize) ==
  IF Gt(zScore, Num(4)) \/ Gt(usdcSize, Num(100000)) THEN "EXTREME"
  ELSE IF Gt(zScore, Num(3)) \/ Gt(usdcSize, Num(50000)) THEN "HIGH"
  ELSE IF Gt(zScore, Dec(25, 10)) \/ Gt(usdcSize, Num(25000)) THEN "MEDIUM"
  ELSE "LOW"

\* IsAnomaly looking at the notional alone
IsAnomalyBySize(combinedZScore, usdcSize) == Gt(usdcSize, Num(5000))

\* IsAnomaly with both comparisons inclusive
IsAnomalyInclusive(combinedZScore, usdcSize) ==
  Ge(combinedZScore, Dec(15, 10)) \/ Ge(usdcSize, Num(5000))

\* the isAnomaly field of addTrade's result
IsAnomaly(combinedZScore, usdcSize) ==
  Gt(combinedZScore, Dec(15, 10)) \/ Gt(usdcSize, Num(5000))

\* globalZScore * 0.4 + marketZScore * 0.6
CombinedZScore(globalZScore, marketZScore) ==
  Add(Mul(globalZScore, Dec(4, 10)), Mul(marketZScore, Dec(6, 10)))

\* the AnomalyResult addTrade returns for a combined z-score, a percentile
\* and a notional
AnomalyResult(combinedZScore, percentile, usdcSize) ==
  [isAnomaly      |-> IsAnomaly(combinedZScore, usdcSize),
   zScore         |-> combinedZScore,
   percentile     |-> percentile,
   suspicionScore |-> calculateSuspicionScore(combinedZScore, percentile, usdcSize),
   severity       |-> getSeverity(combinedZScore, usdcSize)]

\* the AnomalyResult addTrade builds from its metrics
Classify(globalZScore, marketZScore, percentile, usdcSize) ==
  AnomalyResult(CombinedZScore(globalZScore, marketZScore), percentile, usdcSize)

---------------------------------------------------------------------------
\* Orchestrator state (src/src/server/index.ts) and detector state

VARIABLES
  seenTransactions,     \* Set<string>, as the sequence of its keys in insertion order
  topMarkets,           \* Array<{conditionId, title}>
  marketTitleCache,     \* Map<string, string>
  globalTrades,         \* AnomalyDetector.globalTrades
  marketTrades,         \* AnomalyDetector.marketTrades: Map<string, number[]>
  totalTradesAnalyzed,  \* AnomalyDetector.totalTradesAnalyzed
  polls,                \* pollTrades calls suspended at an await
  lookups,              \* 'trade' listeners suspended in getMarketTitle
  whale,                \* io.emit('whale', ...) calls so far
  savedTrades,          \* saveTrade calls so far
  savedAlerts,          \* saveAlert calls so far
  observed,             \* history: the addTrade calls so far
  skipped,              \* history: fetched records dropped by the dedup test
  lastResult,           \* the AnomalyResult of the latest addTrade call
  steps,                \* events handled so far (bounds the exploration)
  unreached,            \* history: fetched records the poll loop ended before reaching
  raced,                \* history: hashes a cycle skipped that were inserted while it ran
  titleCalls,           \* history: the market ids polymarketClient.getMarket was called with
  feed,                 \* PolymarketWebSocket, its timers, and the process
  fn                    \* the call under test in the specification of the pure functions

vars == <<seenTransactions, topMarkets, marketTitleCache, globalTrades,
          marketTrades, totalTradesAnalyzed, polls, lookups, whale,
          savedTrades, savedAlerts, observed, skipped, lastResult, steps,
          unreached, raced, titleCalls, feed, fn>>

\* seenTransactions is trimmed when it holds more keys than this (10000 in
\* the program), scaled.
SEEN_MAX == 2

\* Keys kept by the trim (5000 in the program), scaled.
SEEN_KEEP == 1

\* seenTransactions.has(key)
SeenHas(seen, key) == \E i \in 1..Len(seen) : seen[i] = key

\* arr.slice(-n)
SliceLast(arr, n) ==
  IF Len(arr) <= n THEN arr ELSE SubSeq(arr, Len(arr) - n + 1, Len(arr))

\* SeenAdd with a trim that keeps the oldest keys: arr.slice(0, 5000)
SeenAddKeepOldest(seen, key) ==
  IF Len(seen) + 1 > SEEN_MAX THEN SubSeq(Append(seen, key), 1, SEEN_KEEP)
  ELSE Append(seen, key)

\* seenTransactions.add(key) and the trim that follows it
SeenAdd(seen, key) ==
  LET added == Append(seen, key)
  IN IF Len(added) > SEEN_MAX THEN SliceLast(added, SEEN_KEEP) ELSE added

\* x || y on numbers: y when x is 0, NaN or undefined
OrElse(x, y) == IF x.nan \/ x.m = 0 THEN y ELSE x

\* addTrade computing its metrics before the windows are updated: the
\* result then depends on what the windows held before the call
addTradeClassifyFirst(st, usdcSize, marketId, from) ==
  LET g   == PushShift(st.globalTrades, usdcSize, GLOBAL_WINDOW)
      old == IF marketId \in DOMAIN st.marketTrades
             THEN st.marketTrades[marketId] ELSE <<>>
      mw  == PushShift(old, usdcSize, MARKET_WINDOW)
  IN {[st EXCEPT
        !.globalTrades = g,
        !.marketTrades = [k \in DOMAIN st.marketTrades \cup {marketId} |->
                            IF k = marketId THEN mw ELSE st.marketTrades[k]],
        !.totalTradesAnalyzed = st.totalTradesAnalyzed + 1,
        !.observed = Append(st.observed,
                            [from |-> from.src, key |-> from.key,
                             marketId |-> marketId, timestamp |-> from.timestamp,
                             usdcSize |-> usdcSize]),
        !.lastResult = <<Classify(calculateZScore(usdcSize, st.globalTrades),
                                  calculateZScore(usdcSize, old),
                                  pc.percentile, usdcSize)>>] :
      pc \in calculatePercentile(usdcSize, st.globalTrades)}

\* addTrade computing the market z-score before the market window is
\* updated: the trade is then compared with a window it is not yet part of
addTradeMarketLate(st, usdcSize, marketId, from) ==
  LET g   == PushShift(st.globalTrades, usdcSize, GLOBAL_WINDOW)
      old == IF marketId \in DOMAIN st.marketTrades
             THEN st.marketTrades[marketId] ELSE <<>>
      mw  == PushShift(old, usdcSize, MARKET_WINDOW)
  IN {[st EXCEPT
        !.globalTrades = pc.dataset,
        !.marketTrades = [k \in DOMAIN st.marketTrades \cup {marketId} |->
                            IF k = marketId THEN mw ELSE st.marketTrades[k]],
        !.totalTradesAnalyzed = st.totalTradesAnalyzed + 1,
        !.observed = Append(st.observed,
                            [from |-> from.src, key |-> from.key,
                             marketId |-> marketId, timestamp |-> from.timestamp,
                             usdcSize |-> usdcSize]),
        !.lastResult = <<Classify(calculateZScore(usdcSize, g),
                                  calculateZScore(usdcSize, old),
                                  pc.percentile, usdcSize)>>] :
      pc \in calculatePercentile(usdcSize, g)}

\* AnomalyDetector.addTrade on the pipeline state st: the windows and the
\* counter are updated first, then the metrics are computed from the
\* updated windows.  The states it can end in (one unless the global
\* window holds a NaN); the AnomalyResult it returns is kept in lastResult.
addTrade(st, usdcSize, marketId, from) ==
  LET g  == PushShift(st.globalTrades, usdcSize, GLOBAL_WINDOW)
      mw == PushShift(IF marketId \in DOMAIN st.marketTrades
                      THEN st.marketTrades[marketId] ELSE <<>>,
                      usdcSize, MARKET_WINDOW)
  IN {[st EXCEPT
        !.globalTrades = pc.dataset,
        !.marketTrades = [k \in DOMAIN st.marketTrades \cup {marketId} |->
                            IF k = marketId THEN mw ELSE st.marketTrades[k]],
        !.totalTradesAnalyzed = st.totalTradesAnalyzed + 1,
        !.observed = Append(st.observed,
                            [from |-> from.src, key |-> from.key,
                             marketId |-> marketId, timestamp |-> from.timestamp,
                             usdcSize |-> usdcSize]),
        !.lastResult = <<Classify(calculateZScore(usdcSize, g),
                                  calculateZScore(usdcSize, mw),
                                  pc.percentile, usdcSize)>>] :
      pc \in calculatePercentile(usdcSize, g)}

\* AnomalyDetector.getStats on the pipeline state st
getStats(st) ==
  [globalTradeCount |-> st.totalTradesAnalyzed,
   marketCount      |-> Cardinality(DOMAIN st.marketTrades),
   avgTradeSize     |-> IF Len(st.globalTrades) > 0
                        THEN Mean(st.globalTrades) ELSE Zero]

---------------------------------------------------------------------------
\* Poll path: pollTrades (index.ts 206-304)

\* topMarkets.find(m => m.conditionId === conditionId)?.title, "" when
\* there is no such entry
CachedMarketTitle(tm, conditionId) ==
  LET hits == {i \in 1..Len(tm) : tm[i].conditionId = conditionId}
  IN IF hits = {} THEN ""
     ELSE tm[CHOOSE i \in hits : \A j \in hits : i <= j].title

\* const usdcSize = trade.usdcSize || (trade.size * trade.price)
PolledSize(trade) == OrElse(trade.usdcSize, Mul(trade.size, trade.price))

\* trade.title, else the title topMarkets holds for the market, else ""
PolledTitle(trade, tm) ==
  IF trade.title # "" THEN trade.title ELSE CachedMarketTitle(tm, trade.conditionId)

\* io.emit('whale', ...) then saveTrade(...) of the poll loop
EmitPolled(st, trade, marketTitle) ==
  LET rec == [transactionHash |-> <<trade.transactionHash>>,
              marketId |-> trade.conditionId, marketTitle |-> marketTitle,
              usdcSize |-> PolledSize(trade), from |-> "poll",
              anomaly |-> st.lastResult[1]]
  IN [st EXCEPT !.whale = Append(st.whale, rec),
                !.savedTrades = Append(st.savedTrades, rec)]

\* PollOne without its first line: every fetched record is treated as new.
PollOneUngated(st, trade, tm) ==
  {IF ~out.lastResult[1].isAnomaly \/ PolledTitle(trade, tm) = "" THEN out
   ELSE EmitPolled(out, trade, PolledTitle(trade, tm)) :
   out \in addTrade([st EXCEPT !.seenTransactions =
                         SeenAdd(st.seenTransactions, trade.transactionHash)],
                    PolledSize(trade), trade.conditionId,
                    [src |-> "poll", key |-> <<trade.transactionHash>>,
                     timestamp |-> trade.timestamp])}

\* One iteration of the for loop over allTrades: the states it can end in.
PollOne(st, trade, tm) ==
  IF SeenHas(st.seenTransactions, trade.transactionHash)
  THEN {[st EXCEPT !.skipped = Append(st.skipped, trade.transactionHash)]}
  ELSE {IF ~out.lastResult[1].isAnomaly \/ PolledTitle(trade, tm) = "" THEN out
        ELSE EmitPolled(out, trade, PolledTitle(trade, tm)) :
        out \in addTrade([st EXCEPT !.seenTransactions =
                              SeenAdd(st.seenTransactions, trade.transactionHash)],
                         PolledSize(trade), trade.conditionId,
                         [src |-> "poll", key |-> <<trade.transactionHash>>,
                          timestamp |-> trade.timestamp])}

\* an element of a fetched page that is null instead of a trade record
JsonNull == [null |-> TRUE]

RECURSIVE PollLoop(_, _, _)
\* try { for (const trade of allTrades) { ... } } catch { ... } from each
\* state of the set sts.  Reading trade.transactionHash of a null element
\* throws; the catch is outside the loop, so the loop ends there and the
\* records after the element are not reached.
PollLoop(sts, allTrades, tm) ==
  IF allTrades = <<>> THEN sts
  ELSE IF Head(allTrades) = JsonNull
  THEN {[st EXCEPT !.unreached = st.unreached \o Tail(allTrades)] : st \in sts}
  ELSE PollLoop(UNION {PollOne(st, Head(allTrades), tm) : st \in sts},
                Tail(allTrades), tm)

\* allTrades of one cycle: the global page, then the pages of the markets
\* asked for, in order; a failed market request counts as an empty page
RECURSIVE Flat(_)
Flat(pages) == IF pages = <<>> THEN <<>> ELSE Head(pages) \o Flat(Tail(pages))

\* topMarkets.slice(0, 10)
TOP_POLLED == 10

SliceFirst(arr, n) == IF Len(arr) <= n THEN arr ELSE SubSeq(arr, 1, n)

---------------------------------------------------------------------------
\* refreshTopMarkets (index.ts 185-204)

\* Entries kept by refreshTopMarkets.
TOP_KEPT == 50

RECURSIVE InsertByVolume(_, _)
\* m placed after every entry of the descending list with a volume not below its own
InsertByVolume(sorted, m) ==
  IF sorted = <<>> THEN <<m>>
  ELSE IF m.volume > Head(sorted).volume THEN <<m>> \o sorted
  ELSE <<Head(sorted)>> \o InsertByVolume(Tail(sorted), m)

RECURSIVE SortByVolume(_)
SortByVolume(ms) ==
  IF ms = <<>> THEN <<>>
  ELSE InsertByVolume(SortByVolume(SubSeq(ms, 1, Len(ms) - 1)), ms[Len(ms)])

\* markets.filter(m => m.volume && m.volume > 0).sort(...).slice(0, 50).map(...)
TopMarketsOf(markets) ==
  LET kept   == SelectSeq(markets, LAMBDA m : m.volume > 0)
      sorted == SliceFirst(SortByVolume(kept), TOP_KEPT)
  IN [i \in 1..Len(sorted) |->
        [conditionId |-> sorted[i].conditionId,
         title |-> IF sorted[i].question # "" THEN sorted[i].question
                   ELSE IF sorted[i].title # "" THEN sorted[i].title
                   ELSE "Unknown"]]

---------------------------------------------------------------------------
\* Push path: the 'trade' listener (index.ts 79-149) and getMarketTitle (54-67)

\* parseFloat of a frame field: a decimal string n/d, or a missing field
ParseFloat(field) == IF field.present THEN Dec(field.n, field.d) ELSE NaN

\* processEvent (websocket service): the TradeData of a trade-kind frame
TradeDataOf(frame) ==
  [marketId  |-> frame.market,
   price     |-> ParseFloat(frame.price),
   size      |-> ParseFloat(frame.size),
   timestamp |-> frame.timestamp]

\* processEvent: the 'trade' events it emits for one event of a message.
\* A price_changes event yields 'priceUpdate', which has no listener.
processEvent(e) ==
  IF e.event_type \in {"last_trade_price", "trade"} THEN <<TradeDataOf(e)>> ELSE <<>>

RECURSIVE processEach(_)
\* for (const event of message) this.processEvent(event)
processEach(events) ==
  IF events = <<>> THEN <<>>
  ELSE processEvent(Head(events)) \o processEach(Tail(events))

\* handleMessage: the 'trade' events emitted for a parsed message, an
\* array of events or a single event
handleMessage(message) ==
  IF message.isArray THEN processEach(message.events)
  ELSE processEvent(message.events[1])

\* the 'message' handler of the socket: text that does not start with
\* a brace or bracket is skipped, a JSON.parse error is swallowed
onMessage(data) ==
  IF ~data.startsWithBracket THEN <<>>
  ELSE IF ~data.parses THEN <<>>
  ELSE handleMessage(data.message)

\* The listener from the point where getMarketTitle has returned marketTitle.
EmitPushed(st, p, marketTitle, suffix) ==
  IF marketTitle = "Unknown Market" THEN st
  ELSE LET rec == [transactionHash |-> <<p.marketId, p.timestamp, suffix>>,
                   marketId |-> p.marketId, marketTitle |-> marketTitle,
                   usdcSize |-> p.usdcSize, from |-> "push", anomaly |-> p.anomaly]
       IN [st EXCEPT
             !.whale = Append(st.whale, rec),
             !.savedTrades = Append(st.savedTrades, rec),
             !.savedAlerts = IF p.anomaly.severity \in {"HIGH", "EXTREME"}
                             THEN Append(st.savedAlerts, rec)
                             ELSE st.savedAlerts]

\* what the listener holds across its await
Pending(st, tradeData) ==
  [marketId |-> tradeData.marketId, timestamp |-> tradeData.timestamp,
   usdcSize |-> Mul(tradeData.size, tradeData.price),
   anomaly |-> st.lastResult[1]]

\* The listener up to its await: the states it can end in.  A cached title
\* lets it run on to its end; otherwise it stays suspended in getMarketTitle
\* until getMarket settles.
OnTrade(st, tradeData, suffix) ==
  {IF ~out.lastResult[1].isAnomaly THEN out
   ELSE IF tradeData.marketId \in DOMAIN out.marketTitleCache
   THEN EmitPushed(out, Pending(out, tradeData),
                   out.marketTitleCache[tradeData.marketId], suffix)
   ELSE [out EXCEPT !.lookups = Append(out.lookups, Pending(out, tradeData)),
                    !.titleCalls = Append(out.titleCalls, tradeData.marketId)] :
   out \in addTrade(st, Mul(tradeData.size, tradeData.price), tradeData.marketId,
                    [src |-> "push", key |-> <<>>, timestamp |-> tradeData.timestamp])}

\* getMarketTitle after polymarketClient.getMarket settled (reply.ok) or
\* threw, then the rest of the listener
OnTitle(st, i, reply, suffix) ==
  LET p     == st.lookups[i]
      title == IF ~reply.ok THEN "Unknown Market"
               ELSE IF reply.title # "" THEN reply.title
               ELSE IF reply.question # "" THEN reply.question
               ELSE "Unknown Market"
      rest  == [j \in 1..(Len(st.lookups) - 1) |->
                  IF j < i THEN st.lookups[j] ELSE st.lookups[j + 1]]
      st1   == [st EXCEPT
                  !.lookups = rest,
                  !.marketTitleCache =
                     IF reply.ok
                     THEN [k \in DOMAIN st.marketTitleCache \cup {p.marketId} |->
                             IF k = p.marketId THEN title ELSE st.marketTitleCache[k]]
                     ELSE st.marketTitleCache]
  IN EmitPushed(st1, p, title, suffix)

---------------------------------------------------------------------------
\* Inputs of the pipeline

\* a decimal string of a feed frame, and a missing field
Str(n, d) == [present |-> TRUE, n |-> n, d |-> d]

Missing == [present |-> FALSE, n |-> 0, d |-> 1]

\* Trade-kind frames of the push feed: a small trade, a large one in
\* another market, and a frame without its size field.
Frames ==
  { [market |-> "m1", price |-> Str(5, 10), size |-> Str(200, 1), timestamp |-> 101],
    [market |-> "m2", price |-> Str(5, 10), size |-> Str(120000, 1), timestamp |-> 102],
    [market |-> "m1", price |-> Str(5, 10), size |-> Missing, timestamp |-> 103] }

\* an event of a feed message: a frame with its kind, and whether it
\* carries a price_changes array
EventOf(kind, frame, changes) ==
  [event_type |-> kind, market |-> frame.market, price |-> frame.price,
   size |-> frame.size, timestamp |-> frame.timestamp, price_changes |-> changes]

\* the text of a message that holds one event
TextOf(event) ==
  [startsWithBracket |-> TRUE, parses |-> TRUE,
   message |-> [isArray |-> FALSE, events |-> <<event>>]]

\* Feed messages that carry no trade: text such as "INVALID OPERATION",
\* text that starts like JSON and does not parse, an event without a
\* recognized kind (alone and in an array), and a price-update event.
NoTradeTexts ==
  LET none == [isArray |-> TRUE, events |-> <<>>]
      frame == CHOOSE f \in Frames : f.size.present
  IN { [startsWithBracket |-> FALSE, parses |-> FALSE, message |-> none],
       [startsWithBracket |-> TRUE, parses |-> FALSE, message |-> none],
       TextOf(EventOf("book", frame, FALSE)),
       TextOf(EventOf("", frame, FALSE)),
       [startsWithBracket |-> TRUE, parses |-> TRUE,
        message |-> [isArray |-> TRUE,
                     events |-> <<EventOf("tick_size_change", frame, FALSE)>>]],
       TextOf(EventOf("price_change", frame, TRUE)) }

\* Trade records of the Data API.  Two records carry the hash h1; the
\* record h4 is the trade of the first frame above as the Data API reports
\* it; h3 has no usdcSize and h2 no title.
Fetched ==
  { [transactionHash |-> "h1", conditionId |-> "m1", usdcSize |-> Num(100),
     size |-> Num(200), price |-> Dec(5, 10), title |-> "T1", timestamp |-> 105],
    [transactionHash |-> "h1", conditionId |-> "m2", usdcSize |-> Num(60000),
     size |-> Num(120000), price |-> Dec(5, 10), title |-> "T2", timestamp |-> 106],
    [transactionHash |-> "h2", conditionId |-> "m1", usdcSize |-> Num(6000),
     size |-> Num(12000), price |-> Dec(5, 10), title |-> "", timestamp |-> 107],
    [transactionHash |-> "h3", conditionId |-> "m2", usdcSize |-> Zero,
     size |-> Num(10002), price |-> Dec(5, 10), title |-> "T2", timestamp |-> 108],
    [transactionHash |-> "h4", conditionId |-> "m1", usdcSize |-> Num(100),
     size |-> Num(200), price |-> Dec(5, 10), title |-> "T1", timestamp |-> 101] }

\* Replies of getMarkets to refreshTopMarkets (a failed request is "none").
MarketLists ==
  { <<>>,
    << [conditionId |-> "m2", question |-> "Q2", title |-> "", volume |-> 0],
       [conditionId |-> "m1", question |-> "Q1", title |-> "", volume |-> 7] >>,
    << [conditionId |-> "m1", question |-> "", title |-> "", volume |-> 3] >> }

\* Replies of getMarket to getMarketTitle.
MarketReplies ==
  { [ok |-> TRUE, title |-> "", question |-> "Q"],
    [ok |-> TRUE, title |-> "", question |-> ""],
    [ok |-> FALSE, title |-> "", question |-> ""] }

\* Math.random().toString(36).substring(7) of the synthesized hash
Suffixes == {"r"}

\* Records per fetched page.
MaxPage == 1

\* pollTrades calls in flight at once.
MaxPolls == 1

\* pollTrades calls in flight at once where the poll feed is looked at on
\* its own.
MaxOverlap == 2

\* getMarketTitle calls in flight at once.
MaxLookups == 1

\* Input events (frames, completed poll cycles, market refreshes) of a run.
MaxSteps == 3

\* Events left to a run that starts from a warmed-up detector.
WarmSteps == 2

\* the pages of at most MaxPage records drawn from the records recs
Pages(recs) ==
  UNION {[1..n -> recs] : n \in 0..MaxPage}

\* the elements of the reply to the global request: trade records, or null
Returned == Fetched \cup {JsonNull}

---------------------------------------------------------------------------
\* The pipeline as a state machine

\* the variables the handlers change, as one record
Now ==
  [seenTransactions |-> seenTransactions, marketTitleCache |-> marketTitleCache,
   globalTrades |-> globalTrades, marketTrades |-> marketTrades,
   totalTradesAnalyzed |-> totalTradesAnalyzed, lookups |-> lookups,
   whale |-> whale, savedTrades |-> savedTrades, savedAlerts |-> savedAlerts,
   observed |-> observed, skipped |-> skipped, lastResult |-> lastResult,
   unreached |-> unreached, raced |-> raced, titleCalls |-> titleCalls]

Becomes(st) ==
  /\ seenTransactions' = st.seenTransactions
  /\ marketTitleCache' = st.marketTitleCache
  /\ globalTrades' = st.globalTrades
  /\ marketTrades' = st.marketTrades
  /\ totalTradesAnalyzed' = st.totalTradesAnalyzed
  /\ lookups' = st.lookups
  /\ whale' = st.whale
  /\ savedTrades' = st.savedTrades
  /\ savedAlerts' = st.savedAlerts
  /\ observed' = st.observed
  /\ skipped' = st.skipped
  /\ lastResult' = st.lastResult
  /\ unreached' = st.unreached
  /\ raced' = st.raced
  /\ titleCalls' = st.titleCalls

Is(st) ==
  /\ seenTransactions = st.seenTransactions
  /\ marketTitleCache = st.marketTitleCache
  /\ globalTrades = st.globalTrades
  /\ marketTrades = st.marketTrades
  /\ totalTradesAnalyzed = st.totalTradesAnalyzed
  /\ lookups = st.lookups
  /\ whale = st.whale
  /\ savedTrades = st.savedTrades
  /\ savedAlerts = st.savedAlerts
  /\ observed = st.observed
  /\ skipped = st.skipped
  /\ lastResult = st.lastResult
  /\ unreached = st.unreached
  /\ raced = st.raced
  /\ titleCalls = st.titleCalls

\* the state after construction
Fresh ==
  [seenTransactions |-> <<>>, marketTitleCache |-> <<>>,
   globalTrades |-> <<>>, marketTrades |-> <<>>,
   totalTradesAnalyzed |-> 0, lookups |-> <<>>,
   whale |-> <<>>, savedTrades |-> <<>>, savedAlerts |-> <<>>,
   observed |-> <<>>, skipped |-> <<>>, lastResult |-> <<>>, unreached |-> <<>>,
   raced |-> <<>>, titleCalls |-> <<>>]

\* the small frame of the feed
SmallFrame ==
  [market |-> "m1", price |-> Str(5, 10), size |-> Str(200, 1), timestamp |-> 101]

\* the state after the feed delivered n small trades of one market, with
\* the timestamps 1..n, none of them an anomaly: the listener's last run
\* starts from the windows the first n - 1 runs left
Warm(n) ==
  IF n = 0 THEN Fresh
  ELSE LET td == TradeDataOf(SmallFrame)
           v  == Mul(td.size, td.price)
           before == [Fresh EXCEPT
                        !.globalTrades = [i \in 1..(n - 1) |-> v],
                        !.marketTrades = [k \in {td.marketId} |->
                                            [i \in 1..(n - 1) |-> v]],
                        !.totalTradesAnalyzed = n - 1,
                        !.observed = [i \in 1..(n - 1) |->
                                        [from |-> "push", key |-> <<>>,
                                         marketId |-> td.marketId,
                                         timestamp |-> i, usdcSize |-> v]]]
       IN CHOOSE st \in OnTrade(before, [td EXCEPT !.timestamp = n], "r") : TRUE

\* Lengths of the warm-up runs a behaviour may start from.
WarmUps == {MIN_SAMPLES - 1, MARKET_WINDOW}

fnIdle == [op |-> "none"]

\* the connector and the process once server.listen has called back:
\* connect() has created the first socket, the poll interval is set
Listening ==
  [alive |-> TRUE, sockets |-> <<"connecting">>, ws |-> 1, isConnecting |-> TRUE,
   pingInterval |-> FALSE, intervals |-> 0, reconnectTimers |-> 0,
   subscribing |-> 0, status |-> "none", stopped |-> FALSE, exiting |-> FALSE,
   pollTimer |-> TRUE, attempts |-> 1, disconnected |-> 0, trades |-> 0,
   pollsFired |-> 0]

Init ==
  /\ \E w \in {0} \cup WarmUps :
       /\ Is(Warm(w))
       /\ steps = IF w = 0 THEN 0 ELSE MaxSteps - WarmSteps
  /\ topMarkets = <<>>
  /\ polls = <<>>
  /\ feed = Listening
  /\ fn = fnIdle

\* setInterval(pollTrades, 5000): a cycle starts and awaits the global page.
\* The field seen is history: the dedup cache as it was when the cycle began.
StartCycle ==
  /\ polls' = Append(polls, [phase |-> "recent", markets |-> <<>>,
                              seen |-> seenTransactions])
  /\ UNCHANGED <<seenTransactions, topMarkets, marketTitleCache, globalTrades,
                 marketTrades, totalTradesAnalyzed, lookups, whale, savedTrades,
                 savedAlerts, observed, skipped, lastResult, steps,
                 unreached, raced, titleCalls, feed, fn>>

\* a cycle starts while fewer than MaxPolls are in flight
PollStart == Len(polls) < MaxPolls /\ StartCycle

\* a cycle starts while fewer than MaxOverlap are in flight
PollStartOverlapping == Len(polls) < MaxOverlap /\ StartCycle

Without(seq, i) ==
  [j \in 1..(Len(seq) - 1) |-> IF j < i THEN seq[j] ELSE seq[j + 1]]

\* getTrades({limit: 100}) throws: the outer catch ends the cycle
PollRecentFails(i) ==
  /\ polls[i].phase = "recent"
  /\ polls' = Without(polls, i)
  /\ UNCHANGED <<seenTransactions, topMarkets, marketTitleCache, globalTrades,
                 marketTrades, totalTradesAnalyzed, lookups, whale, savedTrades,
                 savedAlerts, observed, skipped, lastResult, steps,
                 unreached, raced, titleCalls, feed, fn>>

\* getTrades({limit: 100}) returns: one request per market of
\* topMarkets.slice(0, 10) is sent and the cycle awaits Promise.all of them
\* (of none, when topMarkets is empty)
PollRecentReturns(i) ==
  /\ polls[i].phase = "recent"
  /\ polls' = [polls EXCEPT ![i] = [phase |-> "top",
                                    markets |-> SliceFirst(topMarkets, TOP_POLLED),
                                    seen |-> polls[i].seen]]
  /\ UNCHANGED <<seenTransactions, topMarkets, marketTitleCache, globalTrades,
                 marketTrades, totalTradesAnalyzed, lookups, whale, savedTrades,
                 savedAlerts, observed, skipped, lastResult, steps,
                 unreached, raced, titleCalls, feed, fn>>

\* the replies to the market requests of a cycle: a page of that market's
\* trades, or a failure, which the inner catch turns into an empty page
MarketPages(asked) ==
  {ps \in [1..Len(asked) -> [ok : BOOLEAN, trades : Pages(Fetched)]] :
     \A k \in 1..Len(asked) :
        /\ ~ps[k].ok => ps[k].trades = <<>>
        /\ \A j \in 1..Len(ps[k].trades) :
             ps[k].trades[j].conditionId = asked[k].conditionId}

\* st, the state a cycle's loop ended in, with the hashes noted that the
\* loop skipped although the cache did not hold them when the cycle began
\* (began) and held them when the loop started (before)
WithRaced(st, before, began) ==
  LET new == SubSeq(st.skipped, Len(before.skipped) + 1, Len(st.skipped))
      hit(h) == ~SeenHas(began, h) /\ SeenHas(before.seenTransactions, h)
  IN [st EXCEPT !.raced = st.raced \o SelectSeq(new, hit)]

\* PollTopReturns with a dedup test that looks at the cache as it was when
\* the cycle began: the test and the insertion are then apart in time
PollTopReturnsStale(i) ==
  /\ polls[i].phase = "top"
  /\ steps < MaxSteps
  /\ polls' = Without(polls, i)
  /\ steps' = steps + 1
  /\ \E recentTrades \in Pages(Returned), ps \in MarketPages(polls[i].markets) :
       LET topMarketTrades == [k \in 1..Len(ps) |-> ps[k].trades]
           allTrades == recentTrades \o Flat(topMarketTrades)
       IN \E st \in PollLoop({[Now EXCEPT !.seenTransactions = polls[i].seen]},
                             allTrades, topMarkets) :
            Becomes(WithRaced(st, Now, polls[i].seen))
  /\ UNCHANGED <<topMarkets, feed, fn>>

\* every market request has settled: the loop runs over allTrades
PollTopReturns(i) ==
  /\ polls[i].phase = "top"
  /\ steps < MaxSteps
  /\ polls' = Without(polls, i)
  /\ steps' = steps + 1
  /\ \E recentTrades \in Pages(Returned), ps \in MarketPages(polls[i].markets) :
       LET topMarketTrades == [k \in 1..Len(ps) |-> ps[k].trades]
           allTrades == recentTrades \o Flat(topMarketTrades)
       IN \E st \in PollLoop({Now}, allTrades, topMarkets) :
            Becomes(WithRaced(st, Now, polls[i].seen))
  /\ UNCHANGED <<topMarkets, feed, fn>>

\* refreshTopMarkets: getMarkets returned (a failed request changes nothing)
RefreshTopMarkets ==
  /\ steps < MaxSteps
  /\ steps' = steps + 1
  /\ \E markets \in MarketLists : topMarkets' = TopMarketsOf(markets)
  /\ UNCHANGED <<seenTransactions, marketTitleCache, globalTrades, marketTrades,
                 totalTradesAnalyzed, polls, lookups, whale, savedTrades,
                 savedAlerts, observed, skipped, lastResult, unreached, raced, titleCalls, feed, fn>>

\* the socket delivers a message that holds a trade-kind frame: the
\* connector emits 'trade' and the listener runs to its await
FeedTrade ==
  /\ steps < MaxSteps
  /\ steps' = steps + 1
  /\ \E frame \in Frames, suffix \in Suffixes :
       \E st \in OnTrade(Now, onMessage(TextOf(EventOf("last_trade_price",
                                                        frame, FALSE)))[1], suffix) :
          /\ Len(st.lookups) <= MaxLookups
          /\ Becomes(st)
  /\ UNCHANGED <<topMarkets, polls, feed, fn>>

\* getMarket settles for a suspended listener, which runs to its end
TitleSettles ==
  /\ \E i \in 1..Len(lookups), reply \in MarketReplies, suffix \in Suffixes :
       Becomes(OnTitle(Now, i, reply, suffix))
  /\ UNCHANGED <<topMarkets, polls, steps, feed, fn>>

Next ==
  \/ PollStart
  \/ \E i \in 1..Len(polls) : PollRecentFails(i)
  \/ \E i \in 1..Len(polls) : PollRecentReturns(i)
  \/ \E i \in 1..Len(polls) : PollTopReturns(i)
  \/ RefreshTopMarkets
  \/ FeedTrade
  \/ TitleSettles

Spec == Init /\ [][Next]_vars

\* The poll feed on its own, with cycles that overlap: setInterval starts a
\* cycle every 5 s whether or not the one before has ended, and a request
\* may take up to its 10 s timeout.
InitPolls ==
  /\ Is(Fresh)
  /\ topMarkets = <<>>
  /\ polls = <<>>
  /\ steps = 0
  /\ feed = Listening
  /\ fn = fnIdle

NextPolls ==
  \/ PollStartOverlapping
  \/ \E i \in 1..Len(polls) : PollRecentFails(i)
  \/ \E i \in 1..Len(polls) : PollRecentReturns(i)
  \/ \E i \in 1..Len(polls) : PollTopReturns(i)
  \/ RefreshTopMarkets

SpecPolls == InitPolls /\ [][NextPolls]_vars

---------------------------------------------------------------------------
\* The detector's functions called on their own

\* n copies of v
Repeat(v, n) == [i \in 1..n |-> v]

\* Window lengths of the all-equal datasets.
FnLengths == {1, MIN_SAMPLES - 1, MIN_SAMPLES, MIN_SAMPLES + 1}

\* Datasets: empty, short and unsorted ones, one with a NaN, all-equal
\* ones on both sides of MIN_SAMPLES, and one with an outlier.
FnDatasets ==
  { <<>>,
    <<Num(10), Num(20), Num(30)>>,
    <<Num(30), Num(10), Num(20)>>,
    <<Num(20), Num(10), Num(20)>>,
    <<Num(10), NaN, Num(30)>>,
    Repeat(Num(100), MIN_SAMPLES - 1) \o <<Num(6000)>> }
  \cup {Repeat(v, n) : v \in {Num(100), Dec(1, 10), Dec(1234, 100)},
                         n \in FnLengths}

FnValues ==
  {Num(10), Num(20), Num(25), Num(40), Num(100), Dec(1, 10), Dec(1234, 100),
   Num(6000), NaN}

FnZScores ==
  {Zero, Dec(5, 10), Dec(15, 10), Dec(16, 10), Dec(25, 10), Dec(26, 10), Num(3),
   Dec(31, 10), Num(4), Num(5), Neg(Num(5))}

FnPercentiles == {Zero, Num(50), Num(75), Num(79), Num(80), Num(100)}

FnSizes ==
  {Num(3000), Num(5000), Num(5001), Num(10000), Num(12000), Num(25000),
   Num(30000), Num(50000), Num(60000), Num(100000), Num(150000)}

\* a call of calculateZScore or calculatePercentile about to be made
FnWindowInputs ==
  {[op |-> "window", value |-> v, dataset |-> d, result |-> <<>>, after |-> <<>>] :
     v \in FnValues, d \in FnDatasets}

\* the metrics addTrade is about to classify: both z-scores equal, or the
\* market one 0 (0.5 and 0 combine to 0.2)
FnMetricInputs ==
  {[op |-> "metrics", globalZScore |-> g, marketZScore |-> m,
    percentile |-> p, usdcSize |-> u, result |-> <<>>] :
     g \in FnZScores, m \in FnZScores, p \in FnPercentiles, u \in FnSizes}

InitFn ==
  /\ Is(Fresh)
  /\ topMarkets = <<>>
  /\ polls = <<>>
  /\ steps = 0
  /\ feed = Listening
  /\ \/ fn \in FnWindowInputs
     \/ fn \in {i \in FnMetricInputs :
                  i.marketZScore = i.globalZScore \/ i.marketZScore = Zero}

ApplyZScore ==
  /\ fn.op = "window"
  /\ fn' = [fn EXCEPT !.op = "calculateZScore",
                      !.result = <<calculateZScore(fn.value, fn.dataset)>>,
                      !.after = fn.dataset]
  /\ UNCHANGED <<seenTransactions, topMarkets, marketTitleCache, globalTrades,
                 marketTrades, totalTradesAnalyzed, polls, lookups, whale,
                 savedTrades, savedAlerts, observed, skipped, lastResult, steps,
                 unreached, raced, titleCalls, feed>>

ApplyPercentile ==
  /\ fn.op = "window"
  /\ \E pc \in calculatePercentile(fn.value, fn.dataset) :
       fn' = [fn EXCEPT !.op = "calculatePercentile",
                        !.result = <<pc.percentile>>,
                        !.after = pc.dataset]
  /\ UNCHANGED <<seenTransactions, topMarkets, marketTitleCache, globalTrades,
                 marketTrades, totalTradesAnalyzed, polls, lookups, whale,
                 savedTrades, savedAlerts, observed, skipped, lastResult, steps,
                 unreached, raced, titleCalls, feed>>

ApplyClassify ==
  /\ fn.op = "metrics"
  /\ fn' = [fn EXCEPT !.op = "Classify",
                      !.result = <<Classify(fn.globalZScore, fn.marketZScore,
                                            fn.percentile, fn.usdcSize)>>]
  /\ UNCHANGED <<seenTransactions, topMarkets, marketTitleCache, globalTrades,
                 marketTrades, totalTradesAnalyzed, polls, lookups, whale,
                 savedTrades, savedAlerts, observed, skipped, lastResult, steps,
                 unreached, raced, titleCalls, feed>>

NextFn == ApplyZScore \/ ApplyPercentile \/ ApplyClassify

SpecFn == InitFn /\ [][NextFn]_vars

---------------------------------------------------------------------------
\* The feed connector (PolymarketWebSocket), the timers and the process

\* Sockets the connector creates in a run.
MaxAttempts == 3

\* Trade frames the feed delivers in a run.
MaxFrames == 2

\* Firings of the poll interval in a run.
MaxTicks == 2

\* the pipeline is idle while the connector is looked at on its own
PipelineIdle ==
  UNCHANGED <<seenTransactions, topMarkets, marketTitleCache, globalTrades,
              marketTrades, totalTradesAnalyzed, polls, lookups, whale,
              savedTrades, savedAlerts, observed, skipped, lastResult, steps,
              unreached, raced, titleCalls, fn>>

\* stopPing(): clears the interval the connector holds a handle of
stopPing(f) ==
  IF f.pingInterval
  THEN [f EXCEPT !.pingInterval = FALSE, !.intervals = f.intervals - 1]
  ELSE f

\* startPing(): sets an interval and keeps its handle
startPing(f) ==
  [f EXCEPT !.pingInterval = TRUE, !.intervals = f.intervals + 1]

\* connect(): nothing while a connection is being made; otherwise a new
\* socket is created and becomes this.ws
connect(f) ==
  IF f.isConnecting THEN f
  ELSE [f EXCEPT !.isConnecting = TRUE,
                 !.sockets = Append(f.sockets, "connecting"),
                 !.ws = Len(f.sockets) + 1,
                 !.attempts = f.attempts + 1]

\* the process ends: its sockets and timers end with it
Ended(f) ==
  [f EXCEPT !.alive = FALSE,
            !.sockets = [k \in 1..Len(f.sockets) |-> "closed"],
            !.intervals = 0, !.reconnectTimers = 0, !.subscribing = 0,
            !.pollTimer = FALSE]

\* the socket k is one the library still delivers events for
Live(f, k) == f.sockets[k] \in {"connecting", "open", "closing"}

\* ws.on('open'): the handler up to its await in subscribeToActiveMarkets
SocketOpens(k) ==
  /\ feed.alive
  /\ feed.sockets[k] = "connecting"
  /\ feed' = startPing([feed EXCEPT !.sockets[k] = "open",
                                    !.isConnecting = FALSE,
                                    !.subscribing = feed.subscribing + 1])
  /\ PipelineIdle

\* subscribeToActiveMarkets settles (its own catch takes a failure), then
\* this.emit('connected'), which the server passes on as a status
Subscribed ==
  /\ feed.alive
  /\ feed.subscribing > 0
  /\ feed' = [feed EXCEPT !.subscribing = feed.subscribing - 1,
                          !.status = "connected"]
  /\ PipelineIdle

\* ws.on('message') with a trade-kind frame: processEvent emits 'trade'
SocketMessage(k) ==
  /\ feed.alive
  /\ feed.sockets[k] = "open"
  /\ feed.trades < MaxFrames
  /\ feed' = [feed EXCEPT !.trades = feed.trades + 1]
  /\ PipelineIdle

\* ws.on('close'): the remote end closed the link, or a close() completed
SocketCloses(k) ==
  /\ feed.alive
  /\ Live(feed, k)
  /\ feed' = [stopPing([feed EXCEPT !.sockets[k] = "closed",
                                    !.isConnecting = FALSE])
              EXCEPT !.status = "disconnected",
                     !.disconnected = feed.disconnected + 1,
                     !.reconnectTimers = feed.reconnectTimers + 1]
  /\ PipelineIdle

\* ws.on('error'): this.emit('error', error) on an emitter that has no
\* 'error' listener throws the error; nothing catches it, and the process
\* ends
SocketErrors(k) ==
  /\ feed.alive
  /\ feed.sockets[k] \in {"connecting", "open"}
  /\ feed' = Ended([feed EXCEPT !.isConnecting = FALSE])
  /\ PipelineIdle

\* ReconnectFires for a timer that stays set after it fired (setInterval
\* in place of setTimeout)
ReconnectFiresRepeating ==
  /\ feed.alive
  /\ feed.reconnectTimers > 0
  /\ feed.attempts < MaxAttempts
  /\ feed' = connect(feed)
  /\ PipelineIdle

\* the timeout set by the close handler fires: this.connect()
ReconnectFires ==
  /\ feed.alive
  /\ feed.reconnectTimers > 0
  /\ feed.attempts < MaxAttempts
  /\ feed' = connect([feed EXCEPT !.reconnectTimers = feed.reconnectTimers - 1])
  /\ PipelineIdle

\* setInterval(pollTrades, 5000) fires
PollFires ==
  /\ feed.alive
  /\ feed.pollTimer
  /\ feed.pollsFired < MaxTicks
  /\ feed' = [feed EXCEPT !.pollsFired = feed.pollsFired + 1]
  /\ PipelineIdle

\* disconnect(): stopPing, then close this.ws and forget it
disconnect(f) ==
  [stopPing(f) EXCEPT
     !.sockets = [k \in 1..Len(f.sockets) |->
                    IF k = f.ws /\ f.sockets[k] \in {"connecting", "open"}
                    THEN "closing" ELSE f.sockets[k]],
     !.ws = 0,
     !.stopped = TRUE]

\* SIGTERM or SIGINT: disconnect() at once; server.close is called once
\* prisma has disconnected
StopSignal ==
  /\ feed.alive
  /\ ~feed.stopped
  /\ feed' = [disconnect(feed) EXCEPT !.exiting = TRUE]
  /\ PipelineIdle

\* the callback of server.close runs once the server's connections have
\* ended: process.exit(0)
ServerClosed ==
  /\ feed.alive
  /\ feed.exiting
  /\ feed' = Ended(feed)
  /\ PipelineIdle

InitConn ==
  /\ Is(Fresh)
  /\ topMarkets = <<>>
  /\ polls = <<>>
  /\ steps = 0
  /\ feed = Listening
  /\ fn = fnIdle

NextConn ==
  \/ \E k \in 1..Len(feed.sockets) : SocketOpens(k)
  \/ Subscribed
  \/ \E k \in 1..Len(feed.sockets) : SocketMessage(k)
  \/ \E k \in 1..Len(feed.sockets) : SocketCloses(k)
  \/ \E k \in 1..Len(feed.sockets) : SocketErrors(k)
  \/ ReconnectFires
  \/ PollFires
  \/ StopSignal
  \/ ServerClosed

SpecConn == InitConn /\ [][NextConn]_vars

---------------------------------------------------------------------------
\* Histories read off the observation log

\* the transaction hashes the poll loop called addTrade for, in call order
PolledKeys ==
  LET polled == SelectSeq(observed, LAMBDA o : o.from = "poll")
  IN [i \in 1..Len(polled) |-> polled[i].key[1]]

RECURSIVE CacheLenAfter(_)
\* the number of keys in the cache after n insertions: an insertion that
\* takes it above SEEN_MAX leaves SEEN_KEEP keys
CacheLenAfter(n) ==
  IF n = 0 THEN 0
  ELSE IF CacheLenAfter(n - 1) + 1 > SEEN_MAX THEN SEEN_KEEP
  ELSE CacheLenAfter(n - 1) + 1

\* the cache right after the t-th insertion of the history keys holds key
CachedAfter(keys, t, key) ==
  \E k \in (t - CacheLenAfter(t) + 1)..t : keys[k] = key

\* occurrences of x in the sequence s
Count(s, x) == Cardinality({i \in 1..Len(s) : s[i] = x})

---------------------------------------------------------------------------
\* Claims about deduplication and the rolling windows

\* C1: of two fetched records with the same transactionHash, with no trim
\* evicting the hash between them, only the first reaches addTrade.  Two
\* addTrade calls of the poll loop for one hash are therefore separated by
\* an eviction of that hash; a skipped record's hash was inserted before;
\* every addTrade call is counted once; and the poll loop emits and saves at
\* most one trade per addTrade call it made for the hash.
C1_DuplicateSkipped ==
  /\ \A i, j \in 1..Len(PolledKeys) :
       (i < j /\ PolledKeys[i] = PolledKeys[j])
         => \E t \in i..(j - 1) : ~CachedAfter(PolledKeys, t, PolledKeys[i])
  /\ \A i \in 1..Len(skipped) : Count(PolledKeys, skipped[i]) >= 1
  /\ totalTradesAnalyzed = Len(observed)
  /\ \A i \in 1..Len(whale) :
       whale[i].from = "poll"
         => Count([k \in 1..Len(whale) |-> whale[k].transactionHash],
                  whale[i].transactionHash)
              <= Count(PolledKeys, whale[i].transactionHash[1])
  /\ savedTrades = whale

\* C1 witness: a record was skipped as a duplicate and its hash reached
\* addTrade exactly once.
C1_Witness ==
  \E i \in 1..Len(skipped) : Count(PolledKeys, skipped[i]) = 1

\* C2: every trade the push feed emits passes the dedup gate before the
\* windows are updated, so a trade the push feed delivered (a market and a
\* timestamp) is observed once, whether it arrives again from the push
\* feed or from the poll feed.
C2_PushFeedDeduplicated ==
  ~\E i, j \in 1..Len(observed) :
      /\ i < j
      /\ observed[i].from = "push"
      /\ observed[i].marketId = observed[j].marketId
      /\ observed[i].timestamp = observed[j].timestamp

\* C3: the cache never holds more than SEEN_MAX keys; an insertion that
\* takes it above SEEN_MAX leaves exactly the SEEN_KEEP most recently
\* inserted keys, the new one last; so the cache is always the tail of the
\* insertion history, of the length the insertion count determines; and a
\* fetched record whose hash is not in the cache (never inserted, or
\* evicted) is treated as new: the loop calls addTrade for it.
C3_CacheTrim ==
  /\ Len(seenTransactions) <= SEEN_MAX
  /\ Len(seenTransactions) = CacheLenAfter(Len(PolledKeys))
  /\ \A i \in 1..Len(seenTransactions) :
       seenTransactions[i] =
         PolledKeys[Len(PolledKeys) - Len(seenTransactions) + i]
  /\ \A trade \in Fetched :
       (\A i \in 1..Len(seenTransactions) :
           seenTransactions[i] # trade.transactionHash)
         => \A st \in PollOne(Now, trade, topMarkets) :
              /\ Len(st.observed) = Len(observed) + 1
              /\ st.observed[Len(st.observed)].key = <<trade.transactionHash>>
              /\ st.seenTransactions[Len(st.seenTransactions)] = trade.transactionHash

\* C3 witness: a trim has evicted a key, and the loop has called addTrade
\* for that key a second time.
C3_Witness ==
  /\ Len(PolledKeys) > SEEN_MAX
  /\ \E i, j \in 1..Len(PolledKeys) : i < j /\ PolledKeys[i] = PolledKeys[j]

\* the last min(n, Len(s)) entries of s, in order
LastOf(s, n) ==
  [i \in 1..(IF Len(s) < n THEN Len(s) ELSE n) |->
     s[Len(s) - (IF Len(s) < n THEN Len(s) ELSE n) + i]]

\* the notionals addTrade was called with, in call order, for all markets
\* and for the market k
ObservedSizes ==
  [i \in 1..Len(observed) |-> observed[i].usdcSize]

ObservedSizesOf(k) ==
  LET mine == SelectSeq(observed, LAMBDA o : o.marketId = k)
  IN [i \in 1..Len(mine) |-> mine[i].usdcSize]

\* C4: after any sequence of addTrade calls the global window is the last
\* min(N, GLOBAL_WINDOW) observed notionals in insertion order, and every
\* market that was observed has a window that is the last
\* min(n, MARKET_WINDOW) notionals observed for it, in insertion order; so
\* no window is longer than its capacity and the oldest entry is evicted.
C4_WindowsHoldLatest ==
  /\ globalTrades = LastOf(ObservedSizes, GLOBAL_WINDOW)
  /\ Len(globalTrades) <= GLOBAL_WINDOW
  /\ DOMAIN marketTrades = {observed[i].marketId : i \in 1..Len(observed)}
  /\ \A k \in DOMAIN marketTrades :
       /\ marketTrades[k] = LastOf(ObservedSizesOf(k), MARKET_WINDOW)
       /\ Len(marketTrades[k]) <= MARKET_WINDOW

\* C4 witness: more trades were observed than the global window holds, and
\* more for one market than its window holds; both windows are full.
C4_Witness ==
  /\ Len(observed) > GLOBAL_WINDOW
  /\ Len(globalTrades) = GLOBAL_WINDOW
  /\ \E k \in DOMAIN marketTrades :
       /\ Len(ObservedSizesOf(k)) > MARKET_WINDOW
       /\ Len(marketTrades[k]) = MARKET_WINDOW
  /\ \E i \in 1..Len(globalTrades) : globalTrades[i] # globalTrades[1]

---------------------------------------------------------------------------
\* Claims about classification

\* x > n / d, decided on the exact values (false for NaN)
Exceeds(x, n, d) ==
  /\ ~x.nan
  /\ IF x.e >= 0 THEN x.m * 2^(x.e) * d > n ELSE x.m * d > n * 2^(-x.e)

\* the notional of the latest addTrade call
LastSize == observed[Len(observed)].usdcSize

\* C5: the verdict of a classified trade is isAnomaly = (combinedZ > 1.5 OR
\* notional > 5000), where combinedZ is the zScore of the result, 0.4 times
\* the global plus 0.6 times the market z-score; both comparisons are
\* strict, so combinedZ = 1.5 with notional = 5000 is not an anomaly.
C5_AnomalyVerdict ==
  fn.op = "Classify" =>
    /\ fn.result[1].zScore =
         Add(Mul(fn.globalZScore, Dec(4, 10)), Mul(fn.marketZScore, Dec(6, 10)))
    /\ fn.result[1].isAnomaly
         <=> (Exceeds(fn.result[1].zScore, 15, 10) \/ Exceeds(fn.usdcSize, 5000, 1))
    /\ (fn.result[1].zScore = Dec(15, 10) /\ fn.usdcSize = Num(5000))
         => ~fn.result[1].isAnomaly

\* C5 witness: a trade with combinedZ exactly 1.5 and notional exactly 5000
\* was classified, and is not an anomaly.
C5_Witness ==
  /\ fn.op = "Classify"
  /\ fn.result[1].zScore = Dec(15, 10)
  /\ fn.usdcSize = Num(5000)
  /\ ~fn.result[1].isAnomaly

\* C6: severity is the first matching tier, highest first: EXTREME if
\* combinedZ > 4 or notional > 100000, else HIGH if combinedZ > 3 or
\* notional > 50000, else MEDIUM if combinedZ > 2.5 or notional > 25000,
\* else LOW; a negative combinedZ raises nothing.
C6_SeverityTiers ==
  fn.op = "Classify" =>
    fn.result[1].severity =
      IF Exceeds(fn.result[1].zScore, 4, 1) \/ Exceeds(fn.usdcSize, 100000, 1)
      THEN "EXTREME"
      ELSE IF Exceeds(fn.result[1].zScore, 3, 1) \/ Exceeds(fn.usdcSize, 50000, 1)
      THEN "HIGH"
      ELSE IF Exceeds(fn.result[1].zScore, 25, 10) \/ Exceeds(fn.usdcSize, 25000, 1)
      THEN "MEDIUM"
      ELSE "LOW"

\* C6 witness: a trade with combinedZ = -5 and notional 3000 was classified
\* LOW.
C6_Witness ==
  /\ fn.op = "Classify"
  /\ fn.result[1].zScore = Neg(Num(5))
  /\ fn.usdcSize = Num(3000)
  /\ fn.result[1].severity = "LOW"

\* C7: zScore is exactly 0 on every window of fewer than MIN_SAMPLES
\* observations, whatever the value; hence a trade classified while the
\* global window (the trade included) has fewer than MIN_SAMPLES entries
\* has combinedZ = 0 and is an anomaly iff its notional exceeds 5000.
C7_ShortWindowZero ==
  /\ \A v \in FnValues :
       /\ Len(globalTrades) < MIN_SAMPLES => calculateZScore(v, globalTrades) = Zero
       /\ \A k \in DOMAIN marketTrades :
            Len(marketTrades[k]) < MIN_SAMPLES
              => calculateZScore(v, marketTrades[k]) = Zero
  /\ (lastResult # <<>> /\ Len(globalTrades) < MIN_SAMPLES)
       => /\ lastResult[1].zScore = Zero
          /\ lastResult[1].isAnomaly <=> Exceeds(LastSize, 5000, 1)

\* C7 witness: with fewer than MIN_SAMPLES entries of different sizes in
\* the global window, the latest trade was classified an anomaly.
C7_Witness ==
  /\ lastResult # <<>>
  /\ Len(globalTrades) < MIN_SAMPLES
  /\ \E i \in 1..Len(globalTrades) : globalTrades[i] # globalTrades[1]
  /\ lastResult[1].isAnomaly
  /\ lastResult[1].zScore = Zero

\* C8: for a window whose values are all equal (the value scored being that
\* common value), zScore returns exactly 0, whatever the window size and
\* the common value.
C8_ConstantWindowZero ==
  (/\ fn.op = "calculateZScore"
   /\ ~fn.value.nan
   /\ \A i \in 1..Len(fn.dataset) : fn.dataset[i] = fn.value)
    => fn.result[1] = Zero

\* the number r is within one unit in its last place of p / q, for
\* integers p >= 0 and q > 0
NearRatio(r, p, q) ==
  IF p = 0 THEN r = Zero
  ELSE /\ ~r.nan
       /\ r.m > 0
       /\ LET s == PREC - BitLen(r.m)
          IN IF r.e - s < 0
             THEN /\ (r.m * 2^s - 1) * q <= p * 2^(s - r.e)
                  /\ p * 2^(s - r.e) <= (r.m * 2^s + 1) * q
             ELSE /\ (r.m * 2^s - 1) * 2^(r.e - s) * q <= p
                  /\ p <= (r.m * 2^s + 1) * 2^(r.e - s) * q

\* elements of the dataset d below the value v
RankOf(v, d) ==
  Cardinality({i \in 1..Len(d) : ~d[i].nan /\ ~v.nan /\ Less(d[i], v)})

\* C9: calculatePercentile returns 50 for an empty window; otherwise 100
\* when no element is >= value, else 100 * rank / length (to the last place
\* of the number returned), rank being the index of the first element >=
\* value in the ascending copy, which is the number of elements below
\* value; for [10, 20, 30] and 25 that is 200/3.  The window is left as it
\* was.  (With a NaN in the window the copy's order is not determined, and
\* the result is 100 or 100 * k / length for an index k of the copy.)
C9_Percentile ==
  fn.op = "calculatePercentile" =>
    /\ fn.after = fn.dataset
    /\ Len(fn.dataset) = 0 => fn.result[1] = Num(50)
    /\ (Len(fn.dataset) > 0 /\ ~HasNaN(fn.dataset)) =>
         IF \A i \in 1..Len(fn.dataset) : ~Ge(fn.dataset[i], fn.value)
         THEN fn.result[1] = Num(100)
         ELSE NearRatio(fn.result[1], 100 * RankOf(fn.value, fn.dataset),
                        Len(fn.dataset))
    /\ (fn.dataset = <<Num(10), Num(20), Num(30)>> /\ fn.value = Num(25))
         => NearRatio(fn.result[1], 200, 3)
    /\ HasNaN(fn.dataset) =>
         \/ fn.result[1] = Num(100)
         \/ \E k \in 0..(Len(fn.dataset) - 1) :
              NearRatio(fn.result[1], 100 * k, Len(fn.dataset))

\* C9 witness: the percentile of 25 in the unsorted window [30, 10, 20]
\* was computed, two elements being below 25, and the window is unchanged.
C9_Witness ==
  /\ fn.op = "calculatePercentile"
  /\ fn.dataset = <<Num(30), Num(10), Num(20)>>
  /\ fn.value = Num(25)
  /\ fn.after = <<Num(30), Num(10), Num(20)>>
  /\ NearRatio(fn.result[1], 200, 3)

\* C10: the suspicion score of every classified trade is
\* clamp(0, 100, min(40, |combinedZ| * 12) + min(30, (percentile - 50) * 0.6)
\* + sizeBucketBonus(notional)), and lies within [0, 100].
C10_ScoreWithinRange ==
  lastResult # <<>> =>
    /\ lastResult[1].suspicionScore =
         MathMin(Num(100),
                 MathMax(Zero,
                         Add(Add(MathMin(Num(40),
                                         Mul(MathAbs(lastResult[1].zScore), Num(12))),
                                 MathMin(Num(30),
                                         Mul(Sub(lastResult[1].percentile, Num(50)),
                                             Dec(6, 10)))),
                             SizeContribution(LastSize))))
    /\ ~lastResult[1].suspicionScore.nan
    /\ ~Exceeds(lastResult[1].suspicionScore, 100, 1)
    /\ ~Exceeds(Neg(lastResult[1].suspicionScore), 0, 1)

---------------------------------------------------------------------------
\* Claims about the scenarios of classification

\* x < n / d, decided on the exact values (false for NaN)
Below(x, n, d) == ~x.nan /\ Exceeds(Neg(x), -n, d)

\* C11 as stated: a trade with notional = 150,000 whose combinedZ is 5.0 is
\* classified with severity EXTREME, isAnomaly true and suspicionScore
\* equal to 100.
C11_ScoreIsHundred ==
  (fn.op = "Classify" /\ fn.result[1].zScore = Num(5) /\ fn.usdcSize = Num(150000))
    => /\ fn.result[1].severity = "EXTREME"
       /\ fn.result[1].isAnomaly
       /\ fn.result[1].suspicionScore = Num(100)

\* C11 amended: a trade with notional = 150,000 whose combinedZ is 5.0 is
\* classified with severity EXTREME, isAnomaly true and suspicionScore
\* 40 + min(30, (percentile - 50) * 0.6) + 30: 100 at percentile 100 and
\* below 100 at every lower percentile (70 at percentile 50, 40 at
\* percentile 0); the sum never exceeds 100.
C11_LargeOutlier ==
  (fn.op = "Classify" /\ fn.result[1].zScore = Num(5) /\ fn.usdcSize = Num(150000))
    => /\ fn.result[1].severity = "EXTREME"
       /\ fn.result[1].isAnomaly
       /\ ~Exceeds(fn.result[1].suspicionScore, 100, 1)
       /\ fn.percentile = Num(100) <=> fn.result[1].suspicionScore = Num(100)
       /\ Below(fn.percentile, 100, 1) => Below(fn.result[1].suspicionScore, 100, 1)
       /\ fn.percentile = Num(50) => fn.result[1].suspicionScore = Num(70)
       /\ fn.percentile = Zero => fn.result[1].suspicionScore = Num(40)

\* C11 witness: the trade was classified at percentile 75 with the score 85.
C11_Witness ==
  /\ fn.op = "Classify"
  /\ fn.result[1].zScore = Num(5)
  /\ fn.usdcSize = Num(150000)
  /\ fn.percentile = Num(75)
  /\ fn.result[1].severity = "EXTREME"
  /\ fn.result[1].suspicionScore = Num(85)

\* C12 as stated: a trade with notional = 3,000 whose combinedZ is 0.2 is
\* classified with isAnomaly false and a suspicionScore below 20, whatever
\* its percentile in the global window.
C12_ScoreBelowTwenty ==
  (fn.op = "Classify" /\ fn.result[1].zScore = Dec(2, 10) /\ fn.usdcSize = Num(3000))
    => /\ ~fn.result[1].isAnomaly
       /\ Below(fn.result[1].suspicionScore, 20, 1)

\* C12 amended: a trade with notional = 3,000 whose combinedZ is 0.2 is
\* classified with isAnomaly false and the suspicionScore
\* max(0, 2.4 + min(30, (percentile - 50) * 0.6)), which is below 20 when
\* its percentile in the global window is at most 79 and above 20 from
\* percentile 80 on (32.4 at percentile 100).
C12_SmallTrade ==
  (fn.op = "Classify" /\ fn.result[1].zScore = Dec(2, 10) /\ fn.usdcSize = Num(3000))
    => /\ ~fn.result[1].isAnomaly
       /\ ~Exceeds(fn.percentile, 79, 1) => Below(fn.result[1].suspicionScore, 20, 1)
       /\ ~Below(fn.percentile, 80, 1) => Exceeds(fn.result[1].suspicionScore, 20, 1)
       /\ fn.percentile = Num(100)
            => /\ Exceeds(fn.result[1].suspicionScore, 323, 10)
               /\ Below(fn.result[1].suspicionScore, 325, 10)
       /\ fn.percentile = Zero => fn.result[1].suspicionScore = Zero

\* C12 witness: the trade was classified at percentile 79 with a score
\* between 19 and 20.
C12_Witness ==
  /\ fn.op = "Classify"
  /\ fn.result[1].zScore = Dec(2, 10)
  /\ fn.usdcSize = Num(3000)
  /\ fn.percentile = Num(79)
  /\ ~fn.result[1].isAnomaly
  /\ Exceeds(fn.result[1].suspicionScore, 19, 1)
  /\ Below(fn.result[1].suspicionScore, 20, 1)

\* the market of the latest addTrade call
LastMarket == observed[Len(observed)].marketId

---------------------------------------------------------------------------
\* Claims about what reaches the sinks

\* every broadcast trade is an anomaly
EmittedAreAnomalies ==
  \A i \in 1..Len(whale) : whale[i].anomaly.isAnomaly

\* every broadcast trade is handed to persistence, and nothing else is
EmittedArePersisted == savedTrades = whale

\* a trade that is new and not an anomaly is appended to both windows and
\* reaches neither sink: for every record the Data API can return and
\* every frame the feed can deliver next
OrdinaryOnlyObserved ==
  /\ \A trade \in Fetched : \A st \in PollOne(Now, trade, topMarkets) :
       (Len(st.observed) > Len(observed) /\ ~st.lastResult[1].isAnomaly)
         => /\ st.globalTrades[Len(st.globalTrades)] = PolledSize(trade)
            /\ LET w == st.marketTrades[trade.conditionId]
               IN w[Len(w)] = PolledSize(trade)
            /\ st.whale = whale
            /\ st.savedTrades = savedTrades
  /\ \A frame \in Frames : \A st \in OnTrade(Now, TradeDataOf(frame), "r") :
       ~st.lastResult[1].isAnomaly
         => /\ Len(st.observed) = Len(observed) + 1
            /\ LET w == st.marketTrades[frame.market]
               IN w[Len(w)] = st.globalTrades[Len(st.globalTrades)]
            /\ st.whale = whale
            /\ st.savedTrades = savedTrades
            /\ st.lookups = lookups

\* C14: a trade is broadcast and persisted only if it passed the dedup
\* gate (its transaction hash is one the gate admitted) and was classified
\* isAnomaly = true; a new trade that is not an anomaly is appended to the
\* global and market windows and reaches neither sink; and every broadcast
\* trade is handed to persistence.
C14_EmittedOnlyIfNewAndAnomalous ==
  /\ EmittedAreAnomalies
  /\ \A i \in 1..Len(whale) :
       \E j \in 1..Len(observed) : observed[j].key = whale[i].transactionHash
  /\ OrdinaryOnlyObserved
  /\ EmittedArePersisted

\* C15: no trade is broadcast or persisted with a missing or placeholder
\* market title, on the poll path or the push path: a trade whose title is
\* neither on the record nor resolved by the lookup is dropped.
C15_NoPlaceholderTitle ==
  /\ \A i \in 1..Len(whale) :
       whale[i].marketTitle \notin {"", "Unknown", "Unknown Market"}
  /\ \A i \in 1..Len(savedTrades) :
       savedTrades[i].marketTitle \notin {"", "Unknown", "Unknown Market"}

---------------------------------------------------------------------------
\* Claims about failures in a poll cycle

\* C16: the failure of a single request of a poll cycle counts as an empty
\* result for that request only and never ends the cycle: a cycle that
\* awaits its global request goes on to the market requests and to the
\* loop over what the other requests returned; it does not leave the set
\* of running cycles from there.
C16_FailedRequestIsEmptyPage ==
  [][\A i \in 1..Len(polls) :
        polls[i].phase = "recent" => polls' # Without(polls, i)]_vars

\* C17: an error raised while one trade event is processed is caught for
\* that event alone: the loop reaches every later record of the batch, so
\* no fetched record is left unreached by the cycle that fetched it.
C17_ErrorCaughtPerEvent == unreached = <<>>

---------------------------------------------------------------------------
\* Claims about the connector and the process

\* C18: no error ends the process; it ends only after a stop signal
\* (SIGTERM or SIGINT) was received.
C18_OnlyStopSignalEndsProcess == ~feed.alive => feed.stopped

\* a connection is being made, is open, or is on its way to its close event
Connected(f) == \E k \in 1..Len(f.sockets) : Live(f, k)

\* C19: whenever a link closes, after an error or a remote close, the
\* connector (unless it was shut down) emits 'disconnected', stops the
\* heartbeat and sets the timer of a new connection attempt, after every
\* closure alike; so a connector that was not shut down always has a
\* connection open or in the making, or a reconnect timer pending.
C19_ReconnectsAfterEveryClosure ==
  /\ [](~feed.stopped => (Connected(feed) \/ feed.reconnectTimers > 0))
  /\ [][\A k \in 1..Len(feed.sockets) :
          (Live(feed, k) /\ feed'.sockets[k] = "closed" /\ ~feed.stopped)
            => /\ feed'.disconnected = feed.disconnected + 1
               /\ feed'.status = "disconnected"
               /\ ~feed'.pingInterval
               /\ feed'.intervals = 0
               /\ feed'.reconnectTimers = feed.reconnectTimers + 1]_vars

\* C20: once disconnect() was called no connection attempt is started, no
\* reconnect timer is pending, no 'trade' event is emitted and the poll
\* timer does not fire.
C20_CleanShutdown ==
  /\ [](feed.stopped => feed.reconnectTimers = 0)
  /\ [][feed.stopped => /\ feed'.attempts = feed.attempts
                        /\ feed'.trades = feed.trades
                        /\ feed'.pollsFired = feed.pollsFired]_vars

---------------------------------------------------------------------------
\* Claims about malformed input and about the connection signals

\* the size or the price of the frame is missing or not a number
Malformed(frame) == ParseFloat(frame.size).nan \/ ParseFloat(frame.price).nan

\* C21: a feed message that is not a well-formed trade is dropped: text
\* that is not JSON or does not parse, an event without a recognized kind
\* and a price-update event emit no 'trade'; and a trade-kind frame whose
\* size or price is missing or not a number emits none either, so no
\* observation comes from such a frame and no window holds a NaN.
C21_MalformedDropped ==
  /\ \A data \in NoTradeTexts : onMessage(data) = <<>>
  /\ \A frame \in Frames :
       Malformed(frame) =>
         \A i \in 1..Len(observed) :
            ~(observed[i].from = "push" /\ observed[i].marketId = frame.market
              /\ observed[i].timestamp = frame.timestamp)
  /\ \A i \in 1..Len(globalTrades) : ~globalTrades[i].nan
  /\ \A k \in DOMAIN marketTrades :
       \A i \in 1..Len(marketTrades[k]) : ~marketTrades[k][i].nan

\* C22: the heartbeat runs for the link that is open and only while it is
\* open, and the signal emitted last matches the link: 'connected' is the
\* latest signal only while the link it was emitted for has not closed.
C22_SignalsFollowLink ==
  /\ \A k \in 1..Len(feed.sockets) :
       (feed.sockets[k] = "open" /\ feed.ws = k) => feed.pingInterval
  /\ feed.intervals > 0 =>
       (feed.ws \in 1..Len(feed.sockets) /\ feed.sockets[feed.ws] = "open")
  /\ (feed.alive /\ feed.status = "connected") =>
       \E k \in 1..Len(feed.sockets) : feed.sockets[k] \in {"open", "closing"}

---------------------------------------------------------------------------
\* Claims about interleavings

\* C23: the dedup test and insertion are one step for overlapping poll
\* cycles: when two cycles fetch a record with the same transactionHash,
\* one of them calls addTrade and the other skips it.  So two addTrade
\* calls of the poll loop for one hash are separated by an eviction of the
\* hash, however the cycles overlap; and a hash a cycle skipped that was
\* inserted while the cycle ran reached addTrade through the other cycle.
C23_AtomicGate ==
  /\ \A i, j \in 1..Len(PolledKeys) :
       (i < j /\ PolledKeys[i] = PolledKeys[j])
         => \E t \in i..(j - 1) : ~CachedAfter(PolledKeys, t, PolledKeys[j])
  /\ \A i \in 1..Len(raced) : Count(PolledKeys, raced[i]) >= 1

\* C23 witness: two cycles overlapped, both fetched a record with the same
\* hash, and the hash reached addTrade once: the cycle that came second
\* skipped it although the cache did not hold it when that cycle began.
C23_Witness ==
  \E i \in 1..Len(raced) : Count(PolledKeys, raced[i]) = 1

RECURSIVE Replayed(_, _, _)
\* the two windows after the observations entries were applied, in order,
\* to the global window g and the market windows mt
Replayed(g, mt, entries) ==
  IF entries = <<>> THEN [globalTrades |-> g, marketTrades |-> mt]
  ELSE LET o == Head(entries)
           old == IF o.marketId \in DOMAIN mt THEN mt[o.marketId] ELSE <<>>
       IN Replayed(PushShift(g, o.usdcSize, GLOBAL_WINDOW),
                   [k \in DOMAIN mt \cup {o.marketId} |->
                      IF k = o.marketId
                      THEN PushShift(old, o.usdcSize, MARKET_WINDOW) ELSE mt[k]],
                   Tail(entries))

\* the result is the classification of the notional usdcSize of market
\* marketId computed from the windows w, whose newest entries are usdcSize
ClassifiedOn(result, w, usdcSize, marketId) ==
  /\ w.globalTrades[Len(w.globalTrades)] = usdcSize
  /\ w.marketTrades[marketId][Len(w.marketTrades[marketId])] = usdcSize
  /\ \E pc \in calculatePercentile(usdcSize, w.globalTrades) :
       result = Classify(calculateZScore(usdcSize, w.globalTrades),
                         calculateZScore(usdcSize, w.marketTrades[marketId]),
                         pc.percentile, usdcSize)

\* C24: every step that observes trades leaves the windows as they were
\* before with those observations applied in order and nothing else, and
\* the result of the trade observed last is computed from these windows,
\* to which the trade's own notional was applied first: it is the newest
\* entry of the global window and of the market's window.  A listener
\* suspended in its title lookup, or a poll cycle waiting for its pages,
\* does not come between.
C24_ObservedBeforeClassified ==
  [][Len(observed') > Len(observed) =>
       LET new == SubSeq(observed', Len(observed) + 1, Len(observed'))
           w   == Replayed(globalTrades, marketTrades, new)
           o   == new[Len(new)]
       IN /\ globalTrades' = w.globalTrades
          /\ marketTrades' = w.marketTrades
          /\ ClassifiedOn(lastResult'[1], w, o.usdcSize, o.marketId)]_vars

\* C24 witness: while a listener is suspended in its title lookup another
\* trade was observed and classified, with windows of MIN_SAMPLES entries
\* or more.
C24_Witness ==
  /\ lookups # <<>>
  /\ observed # <<>>
  /\ observed[Len(observed)].timestamp # lookups[1].timestamp
  /\ Len(globalTrades) >= MIN_SAMPLES
  /\ Len(marketTrades[LastMarket]) >= MIN_SAMPLES

\* C25: the external title lookup is called at most once for a market id.
C25_LookupOncePerMarket ==
  \A i, j \in 1..Len(titleCalls) : titleCalls[i] = titleCalls[j] => i = j

---------------------------------------------------------------------------
\* Claims about the statistics and the alerts

\* C26: the statistic shown as 'Analyzed', globalTradeCount of getStats,
\* is the current length of the global window and never exceeds
\* GLOBAL_WINDOW; avgTradeSize is the mean of that window, 0 when it is
\* empty.
C26_AnalyzedIsWindowLength ==
  /\ getStats(Now).globalTradeCount = Len(globalTrades)
  /\ getStats(Now).globalTradeCount <= GLOBAL_WINDOW
  /\ globalTrades = <<>> => getStats(Now).avgTradeSize = Zero
  /\ globalTrades # <<>> =>
       getStats(Now).avgTradeSize =
         Div(ReduceSum(globalTrades, Len(globalTrades)), Num(Len(globalTrades)))

\* C27: an alert is saved for a broadcast trade exactly when its severity
\* is HIGH or EXTREME, whether the trade came from the push feed or from a
\* poll cycle: the saved alerts are the broadcast trades of these
\* severities, in order.
C27_AlertIffHighOrExtreme ==
  savedAlerts =
    SelectSeq(whale, LAMBDA w : w.anomaly.severity \in {"HIGH", "EXTREME"})

---------------------------------------------------------------------------
\* Claims about the fields of an AnomalyResult

\* C28: the percentile of every AnomalyResult addTrade returns lies in
\* [0, 100): the window holds the trade's own notional when the percentile
\* is computed, so neither 100 nor the empty-window 50 is returned for lack
\* of an element; and the percentile term of the score is below 30.
C28_PercentileBelowHundred ==
  lastResult # <<>> =>
    /\ Ge(lastResult[1].percentile, Zero)
    /\ Lt(lastResult[1].percentile, Num(100))
    /\ Lt(PercentileContribution(lastResult[1].percentile), Num(30))

\* C29: an AnomalyResult of severity MEDIUM, HIGH or EXTREME has
\* isAnomaly = true; a trade that is not an anomaly has severity LOW.
C29_SeverityImpliesAnomaly ==
  fn.op = "Classify" =>
    /\ fn.result[1].severity \in {"MEDIUM", "HIGH", "EXTREME"}
         => fn.result[1].isAnomaly
    /\ ~fn.result[1].isAnomaly => fn.result[1].severity = "LOW"

\* C29 witness: a trade of notional 3000 was classified MEDIUM by its
\* z-score alone, and as an anomaly.
C29_Witness ==
  /\ fn.op = "Classify"
  /\ fn.usdcSize = Num(3000)
  /\ fn.result[1].severity = "MEDIUM"
  /\ fn.result[1].isAnomaly

---------------------------------------------------------------------------
\* Claims about the connector's sockets

\* the sockets that are connecting or open
Attached(f) == {k \in 1..Len(f.sockets) : f.sockets[k] \in {"connecting", "open"}}

=============================================================================
